---- MODULE Spec2Model ----
(***************************************************************************)
(* A model of find.cpp: the argument parser, the predicate matcher, the    *)
(* breadth-first tree walker, the fork/exec/wait executor and main().      *)
(*                                                                         *)
(* Strings are sequences of one-character strings, so that value[0],       *)
(* value.substr(1), std::stoul and cur_dir + "/" + d_name are computed as  *)
(* the code computes them.                                                 *)
(*                                                                         *)
(* Unsigned 64-bit results of std::stoul are represented by the signed     *)
(* representative of their residue mod 2^64 (stoul("-1") = 2^64-1 is the   *)
(* integer -1).  The conversion to off_t is then the identity, and         *)
(* equality with the small non-negative inode numbers and link counts of   *)
(* the modelled file systems is equality of representatives.               *)
(***************************************************************************)
EXTENDS Integers, Sequences, FiniteSets, TLC

VARIABLES
    argv,         \* main's argument vector, argv[0] first; argc == Len(argv)
    pc,           \* position of the (parent) process
    arguments,    \* the usage structure
    ok,           \* static bool ok
    reason,       \* static std::string reason
    exit_status,  \* how the program (parent process) ended, "none" while running
    maxRead,      \* highest index k of an argv[k] the parser has read (0-based, as in C)
    fs,           \* the file system: path -> metadata
    queue,        \* find(): std::queue<std::string> queue
    result,       \* std::vector<std::string> result (MatchList)
    cur_dir,      \* find(): cur_dir
    dirstream,    \* find(): names readdir() has not returned yet from the open DIR*
    printed,      \* matched paths written to standard output by main
    child,        \* state of the forked child process
    pending,      \* state change of the child that waitpid has not reported yet
    reported,     \* state-change lines the parent printed in execute()
    failedOpen,   \* history: directories whose opendir failed
    failedStat,   \* history: paths whose lstat failed
    expanded,     \* history: directories in the order they were dequeued
    statted,      \* history: paths lstat succeeded on
    checked,      \* history: paths check() was called on
    procErr       \* history: process-management errors that occurred

vars == <<argv, pc, arguments, ok, reason, exit_status, maxRead, fs, queue, result,
          cur_dir, dirstream, printed, child, pending, reported, failedOpen,
          failedStat, expanded, statted, checked, procErr>>

parseVars == <<argv, arguments, ok, reason, maxRead>>
findVars == <<queue, result, cur_dir, dirstream, failedOpen, failedStat, expanded,
              statted, checked>>
execVars == <<child, pending, reported, procErr>>

----------------------------------------------------------------------------
(* Bounds of the model *)

\* number of (flag, value) pairs on the command line
MaxPairs == 2

\* number of state changes the parent reports before the child may no longer
\* be stopped or continued (it may still exit or be killed)
MaxChildEvents == 2

----------------------------------------------------------------------------
(* Strings *)

OptInum == <<"-", "i", "n", "u", "m">>
OptName == <<"-", "n", "a", "m", "e">>
OptSize == <<"-", "s", "i", "z", "e">>
OptNlinks == <<"-", "n", "l", "i", "n", "k", "s">>
OptExec == <<"-", "e", "x", "e", "c">>
OptBogus == <<"-", "b", "o", "g", "u", "s">>

Dot == <<".">>
DotDot == <<".", ".">>

\* #define NOSIZE INT64_MAX.  TLC's integers are 32 bits wide; the
\* sentinel is only ever compared with -1, 0 and 1, so the largest available
\* integer stands for it.
NOSIZE == 2147483647

Digits == {"0", "1", "2", "3", "4", "5", "6", "7", "8", "9"}

DigitVal(c) ==
    CASE c = "0" -> 0 [] c = "1" -> 1 [] c = "2" -> 2 [] c = "3" -> 3 [] c = "4" -> 4
      [] c = "5" -> 5 [] c = "6" -> 6 [] c = "7" -> 7 [] c = "8" -> 8 [] c = "9" -> 9

\* std::string::substr(pos): the suffix starting at 0-based position pos
Substr(s, pos) == SubSeq(s, pos + 1, Len(s))

\* value[0]: for an empty std::string operator[](0) yields the terminating '\0'
CharAt0(s) == IF Len(s) = 0 THEN "\\0" ELSE s[1]

RECURSIVE SkipSpace(_, _)
SkipSpace(s, k) ==
    IF k <= Len(s) /\ s[k] = " " THEN SkipSpace(s, k + 1) ELSE k

RECURSIVE DigitRun(_, _, _)
\* [n |-> number of digits consumed from position k on, val |-> their decimal value]
DigitRun(s, k, acc) ==
    IF k <= Len(s) /\ s[k] \in Digits
    THEN LET r == DigitRun(s, k + 1, acc * 10 + DigitVal(s[k]))
         IN  [n |-> r.n + 1, val |-> r.val]
    ELSE [n |-> 0, val |-> acc]

\* std::stoul(str): skip white space, an optional sign, then the longest run
\* of decimal digits; no digit at all throws std::invalid_argument.  A '-'
\* negates the value in unsigned arithmetic.
Stoul(s) ==
    LET k0 == SkipSpace(s, 1)
        neg == k0 <= Len(s) /\ s[k0] = "-"
        k1 == IF k0 <= Len(s) /\ s[k0] \in {"+", "-"} THEN k0 + 1 ELSE k0
        r == DigitRun(s, k1, 0)
    IN  IF r.n = 0
        THEN [thrown |-> TRUE, val |-> 0]
        ELSE [thrown |-> FALSE, val |-> IF neg THEN 0 - r.val ELSE r.val]

----------------------------------------------------------------------------
(* Argument parser *)

argc == Len(argv)

\* argv[k] for a 0-based k < argc; argv[argc] is the terminating null pointer
ArgvAt(args, k) == args[k + 1]
ArgvIsNull(args, k) == k >= Len(args)

\* values an uninitialised scalar member of `usage` may hold
GarbageVals == {1, 100}

\* the indeterminate contents of a freshly declared `usage`
Garbage == {[inum |-> v, size |-> v, nlinks |-> v] : v \in GarbageVals}

\* `usage arguments;`: the default member initialisers; inum, size and nlinks
\* have none and hold indeterminate values g.
UsageDefault(g) ==
    [path |-> <<>>,
     needs_inum |-> 0, inum |-> g.inum,
     needs_name |-> 0, name |-> <<>>,
     size_sign |-> NOSIZE, size |-> g.size,
     needs_nlinks |-> 0, nlinks |-> g.nlinks,
     needs_exec |-> 0, exec_path |-> <<>>]

\* the switch on value[0] of the -size option; NOSIZE stands for `default:`
SizeSign(sign) ==
    CASE sign = "-" -> -1
      [] sign = "=" -> 0
      [] sign = "+" -> 1
      [] OTHER -> NOSIZE

Max(a, b) == IF a >= b THEN a ELSE b

\* lines 71-74: the default branch of the switch on the sign
WrongSizeUsage(a) ==
    [status |-> "fail", arguments |-> a, reason |-> "Wrong usage of \"size\" option"]

\* variant of UnknownOption: an unrecognised option is skipped
UnknownOptionIgnored(a) ==
    [status |-> "ok", arguments |-> a, reason |-> ""]

\* lines 84-87: the final else of the option chain
UnknownOption(a) ==
    [status |-> "fail", arguments |-> a, reason |-> "Unknown option"]

\* One iteration of the for loop on the pair (argv[i], argv[i + 1]).
\* status: "ok" (go on), "fail" (ok = false; return), "throw" (std::stoul
\* threw), "ub" (std::string built from the null pointer argv[argc]).
ParsePair(args, a, i) ==
    IF ArgvIsNull(args, i + 1)
    THEN [status |-> "ub", arguments |-> a, reason |-> ""]
    ELSE
    LET option == ArgvAt(args, i)
        value == ArgvAt(args, i + 1)
        num == Stoul(value)
        sizenum == Stoul(Substr(value, 1))
        st(x) == IF x.thrown THEN "throw" ELSE "ok"
    IN  CASE option = OptInum ->
               [status |-> st(num),
                arguments |-> IF num.thrown THEN [a EXCEPT !.needs_inum = 1]
                              ELSE [a EXCEPT !.needs_inum = 1, !.inum = num.val],
                reason |-> ""]
          [] option = OptName ->
               [status |-> "ok",
                arguments |-> [a EXCEPT !.needs_name = 1, !.name = value],
                reason |-> ""]
          [] option = OptSize ->
               IF SizeSign(CharAt0(value)) = NOSIZE
               THEN WrongSizeUsage(a)
               ELSE [status |-> st(sizenum),
                     arguments |->
                         IF sizenum.thrown
                         THEN [a EXCEPT !.size_sign = SizeSign(CharAt0(value))]
                         ELSE [a EXCEPT !.size_sign = SizeSign(CharAt0(value)),
                                        !.size = sizenum.val],
                     reason |-> ""]
          [] option = OptNlinks ->
               [status |-> st(num),
                arguments |-> IF num.thrown THEN [a EXCEPT !.needs_nlinks = 1]
                              ELSE [a EXCEPT !.needs_nlinks = 1, !.nlinks = num.val],
                reason |-> ""]
          [] option = OptExec ->
               [status |-> "ok",
                arguments |-> [a EXCEPT !.needs_exec = 1, !.exec_path = value],
                reason |-> ""]
          [] OTHER -> UnknownOption(a)

RECURSIVE ParseLoop(_, _, _, _)
\* for (int i = 2; i < argc; i += 2) { ... }   mr: highest argv index read so far
ParseLoop(args, a, i, mr) ==
    IF ~(i < Len(args))
    THEN [status |-> "ok", arguments |-> a, reason |-> "", maxRead |-> mr]
    ELSE LET r == ParsePair(args, a, i)
             mr2 == Max(mr, i + 1)
         IN  IF r.status = "ok"
             THEN ParseLoop(args, r.arguments, i + 2, mr2)
             ELSE [status |-> r.status, arguments |-> r.arguments,
                   reason |-> r.reason, maxRead |-> mr2]

\* usage parse_arguments(int& argc, char* argv[]), started with the
\* indeterminate values g in the uninitialised members
parse_arguments(args, g) ==
    IF ArgvIsNull(args, 1)
    THEN [status |-> "ub", arguments |-> UsageDefault(g), reason |-> "", maxRead |-> 1]
    ELSE ParseLoop(args, [UsageDefault(g) EXCEPT !.path = ArgvAt(args, 1)], 2, 1)

\* what a build may do when std::string is constructed from a null pointer:
\* std::logic_error left uncaught (abort), or a null dereference in strlen
UBOutcomes == {"abort", "segv"}

----------------------------------------------------------------------------
(* File systems *)

Slash == <<"/">>

\* cur_dir + "/" + relative_path
JoinPath(dir, name) == dir \o Slash \o name

RootDir == <<"r">>
NameA == <<"a">>
NameB == <<"b">>
NameD == <<"d">>
NameS == <<"s">>
Names == {NameA, NameB, NameD, NameS}

Meta(kind, ino, size, nlink) ==
    [kind |-> kind, st_ino |-> ino, st_size |-> size, st_nlink |-> nlink]

\* r/a (50 bytes) and r/s/b (150 bytes), one link each; beside the root, a
\* directory d with a file d/a that is not in the root's subtree
TreeScenario ==
    (RootDir :> Meta("dir", 1, 0, 3))
    @@ (JoinPath(RootDir, NameA) :> Meta("file", 2, 50, 1))
    @@ (JoinPath(RootDir, NameS) :> Meta("dir", 3, 0, 2))
    @@ (JoinPath(JoinPath(RootDir, NameS), NameB) :> Meta("file", 4, 150, 1))
    @@ (NameD :> Meta("dir", 8, 0, 2))
    @@ (JoinPath(NameD, NameA) :> Meta("file", 9, 100, 1))

\* two hard links r/a and r/d/a of one 100-byte file, a symbolic link r/b,
\* a directory r/d/d two levels down holding an empty file, and a sibling
\* directory r/s of r/d holding a 150-byte file
TreeDeep ==
    (RootDir :> Meta("dir", 1, 0, 4))
    @@ (JoinPath(RootDir, NameA) :> Meta("file", 2, 100, 2))
    @@ (JoinPath(RootDir, NameB) :> Meta("symlink", 5, 1, 1))
    @@ (JoinPath(RootDir, NameD) :> Meta("dir", 3, 0, 3))
    @@ (JoinPath(JoinPath(RootDir, NameD), NameA) :> Meta("file", 2, 100, 2))
    @@ (JoinPath(JoinPath(RootDir, NameD), NameD) :> Meta("dir", 4, 0, 2))
    @@ (JoinPath(JoinPath(JoinPath(RootDir, NameD), NameD), NameB) :> Meta("file", 6, 0, 1))
    @@ (JoinPath(RootDir, NameS) :> Meta("dir", 7, 0, 2))
    @@ (JoinPath(JoinPath(RootDir, NameS), NameB) :> Meta("file", 4, 150, 1))

\* a single file under the root
TreeSingle ==
    (RootDir :> Meta("dir", 1, 0, 2))
    @@ (JoinPath(RootDir, NameA) :> Meta("file", 2, 100, 1))

\* the root path names a regular file
TreeRootIsFile ==
    (RootDir :> Meta("file", 1, 100, 1))

FileSystems == {TreeScenario, TreeDeep, TreeRootIsFile}

\* variants of S_ISDIR: nothing is a directory; everything is one
S_ISDIR_Never(sb) == FALSE
S_ISDIR_Always(sb) == TRUE

\* S_ISDIR(sb.st_mode): lstat does not follow links, a symbolic link is no directory
S_ISDIR(sb) == sb.kind = "dir"

\* the names readdir() returns for an open directory: its entries, "." and ".."
Listing(f, dir) == {n \in Names : JoinPath(dir, n) \in DOMAIN f} \cup {Dot, DotDot}

\* opendir can only succeed on an existing directory (and may still fail there)
CanOpen(f, path) == path \in DOMAIN f /\ f[path].kind = "dir"

\* number of '/' in a path: its depth below nothing
RECURSIVE Depth(_)
Depth(path) ==
    IF path = <<>> THEN 0
    ELSE (IF Head(path) = "/" THEN 1 ELSE 0) + Depth(Tail(path))

----------------------------------------------------------------------------
(* Predicate matcher *)

\* variant of check: the "-" size comparison is not strict
checkNonStrict(a, sb, name) ==
    /\ a.needs_nlinks # 0 => a.nlinks = sb.st_nlink
    /\ a.needs_name # 0 => a.name = name
    /\ a.needs_inum # 0 => a.inum = sb.st_ino
    /\ a.size_sign = -1 => sb.st_size <= a.size
    /\ a.size_sign = 0 => sb.st_size = a.size
    /\ a.size_sign = 1 => sb.st_size > a.size

\* variant of check: the inode number is compared whether or not -inum was given
checkAlwaysInum(a, sb, name) ==
    /\ a.needs_nlinks # 0 => a.nlinks = sb.st_nlink
    /\ a.needs_name # 0 => a.name = name
    /\ a.inum = sb.st_ino
    /\ a.size_sign = -1 => sb.st_size < a.size
    /\ a.size_sign = 0 => sb.st_size = a.size
    /\ a.size_sign = 1 => sb.st_size > a.size

\* bool check(const usage& arguments, const struct stat& sb, const std::string& name)
check(a, sb, name) ==
    LET s1 == IF a.needs_nlinks # 0 THEN a.nlinks = sb.st_nlink ELSE TRUE
        s2 == IF a.needs_name # 0 THEN s1 /\ (a.name = name) ELSE s1
        s3 == IF a.needs_inum # 0 THEN s2 /\ (a.inum = sb.st_ino) ELSE s2
        s4 == IF a.size_sign # NOSIZE
              THEN CASE a.size_sign = -1 -> s3 /\ (sb.st_size < a.size)
                     [] a.size_sign = 0 -> s3 /\ (sb.st_size = a.size)
                     [] a.size_sign = 1 -> s3 /\ (sb.st_size > a.size)
                     [] OTHER -> s3
              ELSE s3
    IN  s4

----------------------------------------------------------------------------
(* main and parse_arguments *)

NoEvent == [kind |-> "none", val |-> 0]

\* the members of `usage` before parse_arguments has built it
NoUsage == UsageDefault([inum |-> 0, size |-> 0, nlinks |-> 0])

Range(seq) == {seq[k] : k \in 1..Len(seq)}

\* main, lines 201-211: the help text, the argc warning (which does not end
\* the program), parse_arguments, and the !ok test.
MainParse ==
    /\ pc = "main"
    /\ \E g \in Garbage,
          ub \in UBOutcomes :
         LET r == parse_arguments(argv, g)
         IN  /\ arguments' = r.arguments
             /\ maxRead' = r.maxRead
             /\ ok' = (r.status # "fail")
             /\ reason' = r.reason
             /\ CASE r.status = "ok" ->
                       pc' = "find_enter" /\ exit_status' = "none"
                  [] r.status = "fail" ->
                       \* std::cerr << reason; exit(EXIT_FAILURE)
                       pc' = "done" /\ exit_status' = "failure"
                  [] r.status = "throw" ->
                       \* uncaught std::invalid_argument: std::terminate, abort
                       pc' = "done" /\ exit_status' = "abort"
                  [] OTHER ->
                       pc' = "done" /\ exit_status' = ub
    /\ UNCHANGED <<argv, fs, printed>>
    /\ UNCHANGED findVars
    /\ UNCHANGED execVars

----------------------------------------------------------------------------
(* find *)

\* variant of Enqueue: the path is put at the front (a stack, depth first)
EnqueueFront(q, path) == <<path>> \o q

\* queue.push(path)
Enqueue(q, path) == Append(q, path)

\* variant of AfterOpendirFailure: the traversal is abandoned
AfterOpendirFailureAbort(q) == <<>>

\* what is left of the queue when opendir fails on the dequeued directory:
\* `continue` goes on with the rest
AfterOpendirFailure(q) == q

\* readdir's pseudo-entries, skipped by the strcmp tests
IsDotEntry(name) == name = Dot \/ name = DotDot

\* find, lines 123-124: the queue is seeded with the root path
FindEnter ==
    /\ pc = "find_enter"
    /\ queue' = Enqueue(<<>>, arguments.path)
    /\ pc' = "find_loop"
    /\ UNCHANGED <<result, cur_dir, dirstream, failedOpen, failedStat, expanded,
                   statted, checked, printed, fs, exit_status>>
    /\ UNCHANGED parseVars
    /\ UNCHANGED execVars

\* find, lines 125-132: dequeue a directory and opendir it
FindDequeue ==
    /\ pc = "find_loop"
    /\ queue # <<>>
    /\ cur_dir' = Head(queue)
    /\ expanded' = Append(expanded, Head(queue))
    /\ \E opened \in {b \in BOOLEAN : b => CanOpen(fs, Head(queue))} :
         IF opened
         THEN /\ queue' = Tail(queue)
              /\ dirstream' = Listing(fs, Head(queue))
              /\ pc' = "find_readdir"
              /\ UNCHANGED failedOpen
         ELSE /\ queue' = AfterOpendirFailure(Tail(queue))
              /\ failedOpen' = failedOpen \cup {Head(queue)}
              /\ pc' = "find_loop"
              /\ UNCHANGED dirstream
    /\ UNCHANGED <<result, failedStat, statted, checked, printed, fs, exit_status>>
    /\ UNCHANGED parseVars
    /\ UNCHANGED execVars

\* find, lines 134-153: one entry returned by readdir (in the order the file
\* system chooses), lstat, and the directory / check branch
FindEntry ==
    /\ pc = "find_readdir"
    /\ \E relative_path \in dirstream :
         LET path == JoinPath(cur_dir, relative_path)
         IN  /\ dirstream' = dirstream \ {relative_path}
             /\ IF IsDotEntry(relative_path)
                THEN UNCHANGED <<queue, result, failedStat, statted, checked>>
                ELSE \E ret \in {r \in {0, -1} : r = 0 => path \in DOMAIN fs} :
                       IF ret = -1
                       THEN /\ failedStat' = failedStat \cup {path}
                            /\ UNCHANGED <<queue, result, statted, checked>>
                       ELSE /\ statted' = statted \cup {path}
                            /\ UNCHANGED failedStat
                            /\ IF S_ISDIR(fs[path])
                               THEN /\ queue' = Enqueue(queue, path)
                                    /\ UNCHANGED <<result, checked>>
                               ELSE /\ checked' = checked \cup {path}
                                    /\ result' = IF check(arguments, fs[path], relative_path)
                                                 THEN Append(result, path)
                                                 ELSE result
                                    /\ UNCHANGED queue
    /\ UNCHANGED <<pc, cur_dir, failedOpen, expanded, printed, fs, exit_status>>
    /\ UNCHANGED parseVars
    /\ UNCHANGED execVars

\* find, lines 134 and 155: readdir returns nullptr, closedir
FindCloseDir ==
    /\ pc = "find_readdir"
    /\ dirstream = {}
    /\ pc' = "find_loop"
    /\ UNCHANGED <<queue, result, cur_dir, dirstream, failedOpen, failedStat, expanded,
                   statted, checked, printed, fs, exit_status>>
    /\ UNCHANGED parseVars
    /\ UNCHANGED execVars

\* find, lines 125 and 157: the queue is empty, find returns
FindReturn ==
    /\ pc = "find_loop"
    /\ queue = <<>>
    /\ pc' = "print"
    /\ UNCHANGED <<queue, result, cur_dir, dirstream, failedOpen, failedStat, expanded,
                   statted, checked, printed, fs, exit_status>>
    /\ UNCHANGED parseVars
    /\ UNCHANGED execVars

FindNext == FindEnter \/ FindDequeue \/ FindEntry \/ FindCloseDir \/ FindReturn

----------------------------------------------------------------------------
(* main after find, and execute *)

\* exit status of the parent when fork fails: perror, exit(EXIT_FAILURE)
StatusOnForkError == "failure"

\* variant of StatusOnWaitError: the failure of waitpid is not treated as an error
StatusOnWaitErrorIgnored == "success"

\* exit status of the parent when waitpid fails: perror, exit(EXIT_FAILURE)
StatusOnWaitError == "failure"

\* variant of WaitLoopEnds: a stopped child ends the loop too
WaitLoopEndsOnStop(ev) == ev.kind \in {"exited", "signaled", "stopped"}

\* the do-while condition of execute, negated: WIFEXITED or WIFSIGNALED
WaitLoopEnds(ev) == ev.kind = "exited" \/ ev.kind = "signaled"

\* main, lines 214-222: print every matched path; without -exec, return 0
MainPrint ==
    /\ pc = "print"
    /\ printed' = result
    /\ IF arguments.needs_exec # 0
       THEN pc' = "fork" /\ exit_status' = "none"
       ELSE pc' = "done" /\ exit_status' = "success"
    /\ UNCHANGED fs
    /\ UNCHANGED parseVars
    /\ UNCHANGED findVars
    /\ UNCHANGED execVars

\* execute, lines 161-165: fork
Fork ==
    /\ pc = "fork"
    /\ \E pid \in {-1, 1} :
         IF pid = -1
         THEN /\ procErr' = procErr \cup {"fork"}
              /\ exit_status' = StatusOnForkError
              /\ pc' = "done"
              /\ UNCHANGED child
         ELSE /\ child' = "forked"
              /\ pc' = "wait"
              /\ UNCHANGED <<procErr, exit_status>>
    /\ UNCHANGED <<pending, reported, printed, fs>>
    /\ UNCHANGED parseVars
    /\ UNCHANGED findVars

\* execute, lines 166-178, in the child: build args, execv; when execv
\* returns, perror and exit(EXIT_FAILURE) end the child
ChildExecv ==
    /\ child = "forked"
    /\ \E err \in {0, -1} :
         IF err = -1
         THEN /\ procErr' = procErr \cup {"execv"}
              /\ child' = "exited"
              /\ pending' = [kind |-> "exited", val |-> 1]
         ELSE /\ child' = "running"
              /\ UNCHANGED <<procErr, pending>>
    /\ UNCHANGED <<pc, exit_status, reported, printed, fs>>
    /\ UNCHANGED parseVars
    /\ UNCHANGED findVars

\* the program loaded by execv changes state: it exits, is killed, is
\* stopped or is continued.  waitpid reports the latest change.
ChildChanges ==
    /\ child \in {"running", "stopped"}
    /\ \E ev \in {[kind |-> "exited", val |-> 0], [kind |-> "exited", val |-> 1],
                  [kind |-> "signaled", val |-> 9], [kind |-> "stopped", val |-> 19],
                  [kind |-> "continued", val |-> 0]} :
         /\ ev.kind = "exited" => child = "running"
         /\ ev.kind = "stopped" => child = "running"
         /\ ev.kind = "continued" => child = "stopped"
         /\ ev.kind \in {"stopped", "continued"} => Len(reported) < MaxChildEvents
         /\ pending' = ev
         /\ child' = CASE ev.kind = "exited" -> "exited"
                       [] ev.kind = "signaled" -> "killed"
                       [] ev.kind = "stopped" -> "stopped"
                       [] OTHER -> "running"
    /\ UNCHANGED <<pc, exit_status, reported, procErr, printed, fs>>
    /\ UNCHANGED parseVars
    /\ UNCHANGED findVars

\* execute, lines 180-196: one iteration of the do-while loop.  waitpid
\* blocks until the child has changed state (WUNTRACED | WCONTINUED), or fails.
WaitPid ==
    /\ pc = "wait"
    /\ \E wait_pid \in {-1, 1} :
         IF wait_pid = -1
         THEN /\ procErr' = procErr \cup {"waitpid"}
              /\ exit_status' = StatusOnWaitError
              /\ pc' = "done"
              /\ UNCHANGED <<pending, reported>>
         ELSE /\ pending.kind # "none"
              /\ reported' = Append(reported, pending)
              /\ pending' = NoEvent
              /\ pc' = IF WaitLoopEnds(pending) THEN "exec_return" ELSE "wait"
              /\ UNCHANGED <<procErr, exit_status>>
    /\ UNCHANGED <<child, printed, fs>>
    /\ UNCHANGED parseVars
    /\ UNCHANGED findVars

\* execute returns and main returns 0, lines 198 and 222
MainReturn ==
    /\ pc = "exec_return"
    /\ pc' = "done"
    /\ exit_status' = "success"
    /\ UNCHANGED <<printed, fs>>
    /\ UNCHANGED parseVars
    /\ UNCHANGED findVars
    /\ UNCHANGED execVars

ExecNext == Fork \/ ChildExecv \/ ChildChanges \/ WaitPid \/ MainReturn

----------------------------------------------------------------------------
(* Specifications *)

ProgName == <<"f">>

FlagTokens == {OptInum, OptName, OptSize, OptNlinks, OptExec, OptBogus}
ValueTokens == {<<"2">>, <<"+", "1", "0", "0">>, NameA}

RECURSIVE PairLists(_)
\* the argument lists made of exactly n (flag, value) pairs
PairLists(n) ==
    IF n = 0 THEN {<<>>}
    ELSE {l \o <<f, v>> : l \in PairLists(n - 1), f \in FlagTokens, v \in ValueTokens}

\* program name alone; or program name, root path, up to MaxPairs pairs, and
\* possibly one more flag without a value
Argvs ==
    {ProgName}
    \cup {<<ProgName, RootDir>> \o l \o t :
            l \in UNION {PairLists(n) : n \in 0..MaxPairs},
            t \in {<<>>} \cup {<<f>> : f \in FlagTokens}}

InitCommon ==
    /\ ok = TRUE
    /\ reason = ""
    /\ exit_status = "none"
    /\ maxRead = 0
    /\ queue = <<>>
    /\ result = <<>>
    /\ cur_dir = <<>>
    /\ dirstream = {}
    /\ printed = <<>>
    /\ child = "none"
    /\ pending = NoEvent
    /\ reported = <<>>
    /\ failedOpen = {}
    /\ failedStat = {}
    /\ expanded = <<>>
    /\ statted = {}
    /\ checked = {}
    /\ procErr = {}

\* the whole program, from main's entry
Init ==
    /\ argv \in Argvs
    /\ fs \in {TreeSingle}
    /\ pc = "main"
    /\ arguments = NoUsage
    /\ InitCommon

Next == MainParse \/ FindNext \/ MainPrint \/ ExecNext

Spec == Init /\ [][Next]_vars

\* the usage structures find() is called with: every subset of the four
\* filters active, the members of inactive filters holding any value
Usages ==
    [path : {RootDir},
     needs_inum : {0, 1}, inum : {2, 4},
     needs_name : {0, 1}, name : {NameA, NameB},
     size_sign : {NOSIZE, -1, 0, 1}, size : {100},
     needs_nlinks : {0, 1}, nlinks : {1, 2},
     needs_exec : {0}, exec_path : {<<>>}]

\* find() alone, from its entry, on every usage and every file system
InitFind ==
    /\ argv = <<ProgName, RootDir>>
    /\ fs \in FileSystems
    /\ pc = "find_enter"
    /\ arguments \in Usages
    /\ InitCommon

SpecFind == InitFind /\ [][FindNext]_vars

\* find() alone with no filter active, under weak fairness: the process keeps
\* running while it has a step to take
InitFindNoFilter ==
    /\ InitFind
    /\ arguments.needs_inum = 0
    /\ arguments.needs_name = 0
    /\ arguments.needs_nlinks = 0
    /\ arguments.size_sign = NOSIZE

SpecFindFair == InitFindNoFilter /\ [][FindNext]_vars /\ WF_vars(FindNext)

----------------------------------------------------------------------------
(* Properties *)

RECURSIVE BaseName(_)
\* the last component of a path
BaseName(path) ==
    IF path = <<>> \/ path[Len(path)] = "/" THEN <<>>
    ELSE BaseName(SubSeq(path, 1, Len(path) - 1)) \o <<path[Len(path)]>>

\* the directories on the way to path: its proper prefixes that end before a '/'
AncestorDirs(path) == {SubSeq(path, 1, k - 1) : k \in {j \in 1..Len(path) : path[j] = "/"}}

\* path lies in the subtree under root (and is not root itself)
Under(root, path) ==
    /\ Len(path) > Len(root) + 1
    /\ SubSeq(path, 1, Len(root) + 1) = root \o Slash

\* the non-directory entries of the subtree under root
NonDirEntries(f, root) == {p \in DOMAIN f : Under(root, p) /\ f[p].kind # "dir"}

\* the filter semantics of the specification: every active filter holds
Satisfies(a, sb, name) ==
    /\ a.needs_inum = 1 => sb.st_ino = a.inum
    /\ a.needs_name = 1 => name = a.name
    /\ a.needs_nlinks = 1 => sb.st_nlink = a.nlinks
    /\ a.size_sign = -1 => sb.st_size < a.size
    /\ a.size_sign = 0 => sb.st_size = a.size
    /\ a.size_sign = 1 => sb.st_size > a.size

ActiveFilters(a) ==
    (IF a.needs_inum = 1 THEN {"inum"} ELSE {})
    \cup (IF a.needs_name = 1 THEN {"name"} ELSE {})
    \cup (IF a.needs_nlinks = 1 THEN {"nlinks"} ELSE {})
    \cup (IF a.size_sign # NOSIZE THEN {"size"} ELSE {})

\* C1: every non-directory entry find() has lstat-ed successfully is in
\* MatchList if and only if it satisfies every active filter (strict < for
\* '-', = for '=', strict > for '+'); values of inactive filters play no part.
C1_MatchIffAllActiveFilters ==
    \A p \in statted :
        fs[p].kind # "dir" =>
            ((p \in Range(result)) <=> Satisfies(arguments, fs[p], BaseName(p)))

\* find() has returned with three filters active, one entry matched and one rejected
C1_Witness ==
    /\ pc = "print"
    /\ Cardinality(ActiveFilters(arguments)) >= 3
    /\ arguments.size_sign = -1
    /\ \E p \in statted : fs[p].kind # "dir" /\ p \in Range(result)
    /\ \E q \in statted : fs[q].kind # "dir" /\ q \notin Range(result)

\* C2: check() is only called on, and MatchList only holds, entries whose
\* metadata does not classify them as a directory.
C2_NoDirectoryMatched ==
    \A p \in checked \cup Range(result) : p \in DOMAIN fs /\ fs[p].kind # "dir"

\* directories were lstat-ed and a symbolic link was matched
C2_Witness ==
    /\ \E d \in statted : fs[d].kind = "dir"
    /\ \E p \in Range(result) : fs[p].kind = "symlink"
    /\ \E p \in Range(result) : fs[p].kind = "file"

\* no opendir and no lstat has failed
NoTraversalError == failedOpen = {} /\ failedStat = {}

\* C3: with no active filter, on a tree in which every directory opens and
\* every entry can be stat-ed, find() terminates, and its MatchList is, as a
\* set, exactly the non-directory entries of the subtree under the root path.
C3_NoFilterListsEveryEntry ==
    /\ <>(pc = "print")
    /\ [](pc = "print" /\ NoTraversalError
            => Range(result) = NonDirEntries(fs, arguments.path))

\* find() has returned without any failure from a tree with a subdirectory,
\* and the file system holds a file outside the subtree that is not listed
C3_Witness ==
    /\ pc = "print"
    /\ NoTraversalError
    /\ Len(expanded) >= 2
    /\ Len(result) >= 2
    /\ \E p \in DOMAIN fs : fs[p].kind = "file" /\ p \notin Range(result)

\* a matching non-directory entry no failure stands in the way of: lstat did
\* not fail on it, and neither opendir nor lstat failed on a directory on the
\* way from the root to it
Reachable(p) ==
    /\ Under(arguments.path, p)
    /\ p \notin failedStat
    /\ \A d \in AncestorDirs(p) : d \notin failedOpen /\ d \notin failedStat

IsPrefix(s, t) == Len(s) <= Len(t) /\ SubSeq(t, 1, Len(s)) = s

\* C4: a failed opendir or lstat skips only that directory or child: when
\* find() returns, every matching non-directory entry outside the inaccessible
\* subtrees is in MatchList; and no step removes or changes an entry of
\* MatchList.
C4_FailureSkipsOnlyThatSubtree ==
    /\ [](pc = "print" =>
            \A p \in DOMAIN fs :
                (/\ fs[p].kind # "dir"
                 /\ Reachable(p)
                 /\ Satisfies(arguments, fs[p], BaseName(p)))
                => p \in Range(result))
    /\ [][IsPrefix(result, result')]_vars

\* opendir failed on r/d and lstat failed on r/a, and the file in the sibling
\* directory r/s is in MatchList
C4_Witness ==
    /\ pc = "print"
    /\ JoinPath(RootDir, NameD) \in failedOpen
    /\ JoinPath(RootDir, NameA) \in failedStat
    /\ JoinPath(JoinPath(RootDir, NameS), NameB) \in Range(result)

\* the paths of a sequence are in non-decreasing depth
DepthSorted(seq) == \A i, j \in 1..Len(seq) : i <= j => Depth(seq[i]) <= Depth(seq[j])

\* path without its last component and the '/' before it
Parent(path) == SubSeq(path, 1, Len(path) - Len(BaseName(path)) - 1)

\* every entry of dir has been examined (lstat was called on it)
AllChildrenExamined(dir) ==
    \A n \in Names :
        JoinPath(dir, n) \in DOMAIN fs => JoinPath(dir, n) \in statted \cup failedStat

\* C8: breadth-first order: directories are dequeued in non-decreasing depth,
\* the queue is in non-decreasing depth and not above the directory being
\* listed, a directory is only dequeued after all children of its parent have
\* been examined, and the depth of the paths in MatchList is non-decreasing.
C8_BreadthFirst ==
    /\ DepthSorted(expanded)
    /\ DepthSorted(queue)
    /\ \A k \in 1..Len(queue) :
         \A e \in 1..Len(expanded) : Depth(expanded[e]) <= Depth(queue[k])
    /\ \A e \in 1..Len(expanded) :
         expanded[e] # arguments.path => AllChildrenExamined(Parent(expanded[e]))
    /\ DepthSorted(result)

\* directories of three depths were dequeued, with two siblings among them,
\* and MatchList holds paths of three depths
C8_Witness ==
    /\ pc = "print"
    /\ Len(expanded) >= 4
    /\ \E i, j, k \in 1..Len(result) :
         Depth(result[i]) < Depth(result[j]) /\ Depth(result[j]) < Depth(result[k])

\* C9 as stated: every path in the queue, the seeded one included, was
\* confirmed to be a directory by lstat when it was enqueued.
C9_EveryQueuedPathConfirmed ==
    \A k \in 1..Len(queue) :
        queue[k] \in statted /\ fs[queue[k]].kind = "dir"

\* C9, amended: every path in the queue other than the seeded root path was
\* confirmed to be a directory by lstat when it was enqueued; the root path
\* is enqueued without any check.
C9_QueuedPathConfirmedExceptRoot ==
    \A k \in 1..Len(queue) :
        \/ queue[k] = arguments.path /\ k = 1 /\ expanded = <<>>
        \/ queue[k] \in statted /\ fs[queue[k]].kind = "dir"

\* two directories found by lstat wait in the queue
C9_Witness ==
    /\ Len(queue) >= 2
    /\ \A k \in 1..Len(queue) : queue[k] # arguments.path

\* the 0-based indices of the flags of the complete (flag, value) pairs
PairIndices(args) == {i \in 2..(Len(args) - 2) : i % 2 = 0}

KnownOptions == {OptInum, OptName, OptSize, OptNlinks, OptExec}

\* the pair at i is an unknown flag, or -size with a value that does not
\* start with '-', '=' or '+'
OffendingPair(args, i) ==
    \/ ArgvAt(args, i) \notin KnownOptions
    \/ /\ ArgvAt(args, i) = OptSize
       /\ CharAt0(ArgvAt(args, i + 1)) \notin {"-", "=", "+"}

\* the pair at i is a known flag with a value the flag accepts
WellFormedPair(args, i) ==
    LET option == ArgvAt(args, i)
        value == ArgvAt(args, i + 1)
    IN  /\ option \in KnownOptions
        /\ option \in {OptInum, OptNlinks} => ~Stoul(value).thrown
        /\ option = OptSize =>
             CharAt0(value) \in {"-", "=", "+"} /\ ~Stoul(Substr(value, 1)).thrown

\* find() was never started and nothing came after it
NoTraversalEffect ==
    /\ queue = <<>>
    /\ expanded = <<>>
    /\ statted = {}
    /\ result = <<>>
    /\ printed = <<>>
    /\ child = "none"

\* C5: an unknown flag or a -size value with a wrong first character, at any
\* pair position, ends the program unsuccessfully before find() starts: no
\* directory is opened, nothing is printed, the executor is not invoked.  When
\* the pairs before it are well formed the program ends by exit(EXIT_FAILURE);
\* otherwise an earlier pair may already have ended it by an uncaught exception.
C5_BadOptionStopsBeforeFind ==
    \A i \in PairIndices(argv) :
        (OffendingPair(argv, i) /\ pc # "main") =>
            /\ pc = "done"
            /\ exit_status \in {"failure", "abort"}
            /\ NoTraversalEffect
            /\ (\A j \in PairIndices(argv) : j < i => WellFormedPair(argv, j))
                 => exit_status = "failure" /\ ~ok

\* the program has ended on an offending second pair that follows a
\* well-formed first pair
C5_Witness ==
    /\ pc = "done"
    /\ Len(argv) >= 6
    /\ WellFormedPair(argv, 2)
    /\ ArgvAt(argv, 2) = OptExec
    /\ OffendingPair(argv, 4)
    /\ ArgvAt(argv, 4) = OptSize

\* C6 as stated: every process-management error (fork, waitpid, execv) is
\* fatal: a program in which one has occurred ends with a failure status, and
\* so ends with status 0 only when none has occurred.
C6_EveryProcessErrorFatal ==
    pc = "done" /\ procErr # {} => exit_status = "failure"

\* C6, amended: a failed fork and a failed waitpid end the program with a
\* failure status at once and nothing is retried; a failed execv ends only
\* the child, with a failure status, which the parent then reports like any
\* other exit (the program then ends with status 0 unless waitpid fails); the
\* program ends with status 0 only if parsing succeeded and neither fork nor
\* waitpid failed.
C6_ForkAndWaitErrorsFatal ==
    /\ ("fork" \in procErr \/ "waitpid" \in procErr) =>
         pc = "done" /\ exit_status = "failure"
    /\ "fork" \in procErr => child = "none" /\ reported = <<>>
    /\ "execv" \in procErr =>
         /\ child = "exited"
         /\ \/ pending = [kind |-> "exited", val |-> 1]
            \/ (reported # <<>> /\ reported[Len(reported)] = [kind |-> "exited", val |-> 1])
            \/ "waitpid" \in procErr
    /\ exit_status = "success" =>
         /\ pc = "done"
         /\ ok
         /\ "fork" \notin procErr /\ "waitpid" \notin procErr
         /\ arguments.needs_exec # 0 => child \in {"exited", "killed"}

\* waitpid failed after the parent had reported a stop of the child
C6_Witness ==
    /\ "waitpid" \in procErr
    /\ reported # <<>>
    /\ pc = "done"

\* C7: each transition waitpid returns is reported; the loop is left exactly
\* on a normal exit or a kill by signal, and a stopped or continued transition
\* leads to another wait; the parent never returns from execute() while the
\* child is running or stopped.
C7_WaitLoop ==
    /\ [](pc = "exec_return" \/ (exit_status = "success" /\ arguments.needs_exec # 0)
            => child \in {"exited", "killed"})
    /\ [][reported' # reported =>
            /\ pc = "wait"
            /\ pending.kind \in {"exited", "signaled", "stopped", "continued"}
            /\ reported' = Append(reported, pending)
            /\ (pending.kind \in {"exited", "signaled"} <=> pc' = "exec_return")
            /\ (pending.kind \in {"stopped", "continued"} <=> pc' = "wait")]_vars
    /\ [][(pc = "wait" /\ pc' = "exec_return") => reported' # reported]_vars

\* the parent reported a stop, then a continuation, then the end of the child,
\* and has left the loop
C7_Witness ==
    /\ pc = "exec_return"
    /\ Len(reported) = 3
    /\ reported[1].kind = "stopped"
    /\ reported[2].kind = "continued"
    /\ reported[3].kind = "signaled"

\* the argument list ends with a flag that has no value
TrailingUnpaired(args) == Len(args) >= 3 /\ Len(args) % 2 = 1

\* C10 as stated: with a trailing unpaired flag, the parser reads no argv slot
\* at or beyond argc, the flag sets no filter, and parsing ends without error.
C10_TrailingFlagAccepted ==
    (/\ TrailingUnpaired(argv)
     /\ \A j \in PairIndices(argv) : WellFormedPair(argv, j)
     /\ pc # "main")
    => /\ maxRead < argc
       /\ ok
       /\ exit_status \notin {"failure", "abort", "segv"}

====
